---- MODULE Spec2Model ----
(***************************************************************************)
(* File-upload utilities of the supervisor system (app/file_utils.py):     *)
(* extract_base64_from_data_url, parse_file_upload_markers,                *)
(* validate_file_upload and normalize_file_uploads.                        *)
(*                                                                         *)
(* A Python str is a sequence of lexical units.  A unit is one character   *)
(* ("[", "]", ":", ",", "\\", " ", "n", "1", NL for the newline) or a word *)
(* that only ever occurs whole ("FILE_UPLOAD", "base64", "Uploaded file",  *)
(* BIG for a run of MAX_FILE_SIZE_BASE64 letters A, ...).  All units start *)
(* with different characters and no word holds "[", "]", ":", "," or a     *)
(* newline, so equality, substring search and the matching of the marker   *)
(* pattern on unit sequences agree with the same on the characters.        *)
(* UnitLen gives the number of characters of a unit.                       *)
(***************************************************************************)
EXTENDS Integers, Sequences, FiniteSets, TLC

VARIABLES pc, data_url, file_upload, structured_uploads, query_text, layout,
          result, result2

vars == <<pc, data_url, file_upload, structured_uploads, query_text, layout,
          result, result2>>

-----------------------------------------------------------------------------
(* Constants of the module *)

FILE_UPLOAD_MARKER_PREFIX == <<"[", "FILE_UPLOAD", ":">>

MAX_FILE_SIZE_BASE64 == 25 * 1024 * 1024

SUPPORTED_MIME_TYPES ==
    { <<"text/plain">>, <<"text/markdown">>, <<"text/x-markdown">>,
      <<"application/pdf">>,
      <<"application/vnd.openxmlformats-officedocument.wordprocessingml.document">> }

-----------------------------------------------------------------------------
(* Strings *)

NL == "NL"
BS == "\\"
BIG == "AAA...A"

UnitLen(u) ==
    CASE u = "FILE_UPLOAD" -> 11
      [] u = "base64" -> 6
      [] u = "BSase64" -> 6
      [] u = "Uploaded file" -> 13
      [] u = BIG -> MAX_FILE_SIZE_BASE64
      [] u = "text/plain" -> 10
      [] u = "application/x-unknown" -> 21
      [] OTHER -> 1

RECURSIVE StrLen(_)
StrLen(s) == IF s = <<>> THEN 0 ELSE UnitLen(Head(s)) + StrLen(Tail(s))

Max(S) == CHOOSE x \in S : \A y \in S : y <= x
Min(S) == CHOOSE x \in S : \A y \in S : x <= y

\* s[i:] of Python, i counted from 1
From(s, i) == SubSeq(s, i, Len(s))

\* the places where sub occurs in s
Occurrences(s, sub) ==
    { i \in 1..(Len(s) - Len(sub) + 1) : SubSeq(s, i, i + Len(sub) - 1) = sub }

\* sub in s
Contains(s, sub) == Occurrences(s, sub) # {}

\* s.split(sep): the parts between the occurrences of sep, taken left to right
RECURSIVE Split(_, _)
Split(s, sep) ==
    IF ~Contains(s, sep) THEN <<s>>
    ELSE LET i == Min(Occurrences(s, sep))
         IN  <<SubSeq(s, 1, i - 1)>> \o Split(From(s, i + Len(sep)), sep)

-----------------------------------------------------------------------------
(* extract_base64_from_data_url *)

Returned(v) == [exc |-> "none", val |-> v]
Raised(e) == [exc |-> e, val |-> <<>>]

extract_else_empty(s) ==
    IF s = <<>> THEN Raised("ValueError")
    ELSE IF Contains(s, <<"base64", ",">>) THEN Returned(Split(s, <<"base64", ",">>)[2])
    ELSE IF Contains(s, <<",">>) THEN
        LET parts == Split(s, <<",">>) IN Returned(parts[Len(parts)])
    ELSE Returned(<<>>)

extract_base64_from_data_url(s) ==
    IF s = <<>> THEN Raised("ValueError")
    ELSE IF Contains(s, <<"base64", ",">>) THEN Returned(Split(s, <<"base64", ",">>)[2])
    ELSE IF Contains(s, <<",">>) THEN
        LET parts == Split(s, <<",">>) IN Returned(parts[Len(parts)])
    ELSE Returned(s)

-----------------------------------------------------------------------------
(* The marker pattern \[FILE_UPLOAD:(.+):([^:]+):([^\]]+)\] *)

\* the end of the longest run of units other than stop that starts at p
\* (p - 1 when there is none)
RunEnd(t, p, stop) ==
    Max({ e \in (p - 1)..Len(t) : \A k \in p..e : t[k] # stop })

\* :([^:]+):([^\]]+)\] matched at place c; its end, 0 when it does not match.
\* Both classes are greedy and each is followed by the one unit it excludes,
\* so only the longest run can be followed by it.
TailEnd(t, c) ==
    IF ~(c <= Len(t) /\ t[c] = ":") THEN 0
    ELSE LET r == RunEnd(t, c + 1, ":")
         IN  IF ~(r >= c + 1 /\ r + 1 <= Len(t)) THEN 0
             ELSE LET v == RunEnd(t, r + 2, "]")
                  IN  IF v >= r + 2 /\ v + 1 <= Len(t) THEN v + 1 ELSE 0

NoMatch == [ok |-> FALSE, start |-> 0, end |-> 0, g1 |-> <<>>, g2 |-> <<>>, g3 |-> <<>>]

\* the match of the pattern that starts at place i: (.+) is greedy and does
\* not cross a newline; the longest first group the rest can follow wins
MatchAt(t, i) ==
    IF ~(i + 2 <= Len(t) /\ SubSeq(t, i, i + 2) = FILE_UPLOAD_MARKER_PREFIX)
    THEN NoMatch
    ELSE LET p == i + 3
             ends == { e \in p..RunEnd(t, p, NL) : TailEnd(t, e + 1) # 0 }
         IN  IF ends = {} THEN NoMatch
             ELSE LET e == Max(ends)
                      c == e + 1
                      r == RunEnd(t, c + 1, ":")
                      v == RunEnd(t, r + 2, "]")
                  IN  [ok |-> TRUE, start |-> i, end |-> v + 1,
                       g1 |-> SubSeq(t, p, e),
                       g2 |-> SubSeq(t, c + 1, r),
                       g3 |-> SubSeq(t, r + 2, v)]

\* the non-overlapping matches in t from place i on, left to right
RECURSIVE MatchesFrom(_, _)
MatchesFrom(t, i) ==
    IF i > Len(t) THEN <<>>
    ELSE LET m == MatchAt(t, i)
         IN  IF m.ok THEN <<m>> \o MatchesFrom(t, m.end + 1)
             ELSE MatchesFrom(t, i + 1)

re_findall(t) == MatchesFrom(t, 1)

-----------------------------------------------------------------------------
(* re.sub with a string as replacement *)

\* a backslash followed by unit u in a replacement template
Escape(u) ==
    CASE u = BS -> Returned(<<BS>>)
      [] u = "n" -> Returned(<<NL>>)
      [] u = "base64" -> Returned(<<"BSase64">>)
      [] u = "text/plain" -> Returned(<<"TABext/plain">>)
      [] u = "application/x-unknown" -> Returned(<<"BELpplication/x-unknown">>)
      [] u \in {"1", "FILE_UPLOAD", "Uploaded file", BIG} -> Raised("re.error")
      [] OTHER -> Returned(<<BS, u>>)

RECURSIVE expand_template(_)
expand_template(repl) ==
    IF repl = <<>> THEN Returned(<<>>)
    ELSE IF Head(repl) # BS THEN
        LET rest == expand_template(Tail(repl))
        IN  IF rest.exc # "none" THEN rest ELSE Returned(<<Head(repl)>> \o rest.val)
    ELSE IF Len(repl) = 1 THEN Raised("re.error")
    ELSE LET esc == Escape(repl[2])
             rest == expand_template(From(repl, 3))
         IN  IF esc.exc # "none" THEN esc
             ELSE IF rest.exc # "none" THEN rest
             ELSE Returned(esc.val \o rest.val)

\* every non-overlapping occurrence of the literal lit in s replaced by new
RECURSIVE replace_all(_, _, _)
replace_all(s, lit, new) ==
    IF ~Contains(s, lit) THEN s
    ELSE LET i == Min(Occurrences(s, lit))
         IN  SubSeq(s, 1, i - 1) \o new \o replace_all(From(s, i + Len(lit)), lit, new)

\* re.sub(re.escape-d literal, repl, s): the template is compiled first
re_sub(lit, repl, s) ==
    LET new == expand_template(repl)
    IN  IF new.exc # "none" THEN new ELSE Returned(replace_all(s, lit, new.val))

-----------------------------------------------------------------------------
(* Values passed and returned *)

\* a dict with the three fields of a file upload
FileUpload(b, f, m) ==
    [type |-> "dict", items |-> [base64_data |-> b, filename |-> f, mime_type |-> m]]

\* what a call leaves behind: the exception that left it, or the returned
\* text, list of uploads and truth value (those a function has)
Result(e, t, fs, b) == [exc |-> e, text |-> t, files |-> fs, ok |-> b]
NoResult == Result("none", <<>>, <<>>, FALSE)

-----------------------------------------------------------------------------
(* parse_file_upload_markers *)

MarkerLiteral(g1, g2, g3) ==
    FILE_UPLOAD_MARKER_PREFIX \o g1 \o <<":">> \o g2 \o <<":">> \o g3 \o <<"]">>

Placeholder(filename) == <<"[", "Uploaded file", ":", " ">> \o filename \o <<"]">>

\* the loop over the matches, from match k on
RECURSIVE parse_loop(_, _, _, _)
parse_loop(matches, k, clean_query, file_uploads) ==
    IF k > Len(matches) THEN Result("none", clean_query, file_uploads, FALSE)
    ELSE LET m == matches[k]
             base64_data == extract_base64_from_data_url(m.g1)
         IN  IF base64_data.exc = "ValueError"
                 THEN parse_loop(matches, k + 1, clean_query, file_uploads)
             ELSE IF base64_data.val = <<>>
                 THEN parse_loop(matches, k + 1, clean_query, file_uploads)
             ELSE IF StrLen(base64_data.val) > MAX_FILE_SIZE_BASE64
                 THEN parse_loop(matches, k + 1, clean_query, file_uploads)
             ELSE LET sub == re_sub(MarkerLiteral(m.g1, m.g2, m.g3),
                                    Placeholder(m.g2), clean_query)
                  IN  IF sub.exc # "none" THEN Result(sub.exc, <<>>, <<>>, FALSE)
                      ELSE parse_loop(matches, k + 1, sub.val,
                                      Append(file_uploads,
                                             FileUpload(base64_data.val, m.g2, m.g3)))

parse_file_upload_markers(text) == parse_loop(re_findall(text), 1, text, <<>>)

-----------------------------------------------------------------------------
(* validate_file_upload *)

required_fields == {"base64_data", "filename", "mime_type"}

validate_rejects_mime(u) ==
    IF u.type # "dict" THEN FALSE
    ELSE IF ~(required_fields \subseteq DOMAIN u.items) THEN FALSE
    ELSE IF u.items.base64_data = <<>> THEN FALSE
    ELSE IF StrLen(u.items.base64_data) > MAX_FILE_SIZE_BASE64 THEN FALSE
    ELSE IF u.items.mime_type # <<>> /\ u.items.mime_type \notin SUPPORTED_MIME_TYPES
        THEN FALSE
    ELSE TRUE

validate_without_size(u) ==
    IF u.type # "dict" THEN FALSE
    ELSE IF ~(required_fields \subseteq DOMAIN u.items) THEN FALSE
    ELSE IF u.items.base64_data = <<>> THEN FALSE
    ELSE TRUE

validate_file_upload(u) ==
    IF u.type # "dict" THEN FALSE
    ELSE IF ~(required_fields \subseteq DOMAIN u.items) THEN FALSE
    ELSE IF u.items.base64_data = <<>> THEN FALSE
    ELSE IF StrLen(u.items.base64_data) > MAX_FILE_SIZE_BASE64 THEN FALSE
    ELSE IF u.items.mime_type # <<>> /\ u.items.mime_type \notin SUPPORTED_MIME_TYPES
        THEN TRUE
    ELSE TRUE

-----------------------------------------------------------------------------
(* normalize_file_uploads *)

\* Optional[List]: None, or a list
None == [none |-> TRUE, list |-> <<>>]
List(l) == [none |-> FALSE, list |-> l]

\* the truth value of an Optional[List]
Truthy(s) == ~s.none /\ s.list # <<>>

normalize_falls_back(s, text) ==
    IF Truthy(s) /\ SelectSeq(s.list, validate_file_upload) # <<>>
    THEN Result("none", text, SelectSeq(s.list, validate_file_upload), FALSE)
    ELSE parse_file_upload_markers(text)

normalize_merges(s, text) ==
    LET parsed == parse_file_upload_markers(text)
    IN  IF Truthy(s) /\ parsed.exc = "none"
        THEN Result("none", text,
                    SelectSeq(s.list, validate_file_upload) \o parsed.files, FALSE)
        ELSE parsed

normalize_file_uploads(s, text) ==
    IF Truthy(s)
    THEN Result("none", text, SelectSeq(s.list, validate_file_upload), FALSE)
    ELSE parse_file_upload_markers(text)

-----------------------------------------------------------------------------
(* The inputs *)

MaxDataLen == 4
MaxPieces == 3
MaxUploads == 2

\* the sequences of at most n elements of S
RECURSIVE SeqsUpTo(_, _)
SeqsUpTo(S, n) ==
    IF n = 0 THEN {<<>>}
    ELSE LET shorter == SeqsUpTo(S, n - 1)
         IN  shorter \cup { Append(q, x) : q \in shorter, x \in S }

\* data URLs and bare payloads
DataUrls == SeqsUpTo({"n", ":", ",", "base64"}, MaxDataLen)

\* a text is laid out as pieces: plain text, or a marker written from its
\* three parts
Text(s) == [kind |-> "text", d |-> s, f |-> <<>>, m |-> <<>>]
Marker(d, f, m) == [kind |-> "marker", d |-> d, f |-> f, m |-> m]

PieceText(p) == IF p.kind = "text" THEN p.d ELSE MarkerLiteral(p.d, p.f, p.m)

RECURSIVE Flatten(_)
Flatten(l) == IF l = <<>> THEN <<>> ELSE PieceText(Head(l)) \o Flatten(Tail(l))

DataUrlN == <<"n", ":", "n", "base64", ",", "n">>
Nested == <<BIG>> \o MarkerLiteral(<<"n">>, <<"n">>, <<"n">>)

ParsePieces ==
    { Text(<<NL>>), Text(<<"n">>), Text(<<NL, ":", "]">>), Text(<<"[", "FILE_UPLOAD", ":">>),
      Marker(<<"n">>, <<"n">>, <<"n">>),
      Marker(<<"1">>, <<"1">>, <<"1">>),
      Marker(DataUrlN, <<"1">>, <<"n">>),
      Marker(<<"base64", ",">>, <<"n">>, <<"n">>),
      Marker(<<BIG>>, <<"1">>, <<"n">>),
      Marker(<<BIG, "1">>, <<"n">>, <<"n">>),
      Marker(Nested, <<"n">>, <<"n">>),
      Marker(<<"1">>, <<"n", BS, "1">>, <<"n">>),
      Marker(<<"1">>, <<BS, "n">>, <<"n">>),
      Marker(<<"1">>, <<"n", BS>>, <<"n">>) }

NormalizePieces ==
    { Text(<<NL, ":", "]">>),
      Marker(<<"n">>, <<"n">>, <<"n">>),
      Marker(DataUrlN, <<"1">>, <<"1">>),
      Marker(<<BIG, "1">>, <<"1">>, <<"n">>),
      Marker(<<"1">>, <<BS, "1">>, <<"n">>) }

\* dicts over every choice of fields, and a value that is no dict
Dict(keys, b, f, m, x) ==
    [type |-> "dict",
     items |-> [k \in keys |-> CASE k = "base64_data" -> b
                                 [] k = "filename" -> f
                                 [] k = "mime_type" -> m
                                 [] OTHER -> x]]
NotADict == [type |-> "str", items |-> <<>>]

Payloads == { <<>>, <<"n">>, <<BIG>>, <<BIG, "n">> }
MimeTypes == { <<>>, <<"text/plain">>, <<"application/x-unknown">> }

Uploads ==
    { Dict(keys, b, <<"n">>, m, <<"1">>) :
        keys \in SUBSET (required_fields \cup {"size"}), b \in Payloads, m \in MimeTypes }
    \cup {NotADict}

StructuredEntries ==
    { FileUpload(<<"n">>, <<"n">>, <<"text/plain">>),
      FileUpload(<<BIG>>, <<"1">>, <<"application/x-unknown">>),
      FileUpload(<<BIG, "n">>, <<"n">>, <<"text/plain">>),
      Dict({"base64_data", "filename"}, <<"n">>, <<"n">>, <<>>, <<>>),
      NotADict }

StructuredInputs ==
    {None} \cup { List(l) : l \in SeqsUpTo(StructuredEntries, MaxUploads) }

-----------------------------------------------------------------------------
(* The calls *)

Idle ==
    /\ pc = "call"
    /\ result = NoResult
    /\ result2 = NoResult

InitCodec ==
    /\ Idle
    /\ data_url \in DataUrls
    /\ file_upload = NotADict
    /\ structured_uploads = None
    /\ query_text = <<>>
    /\ layout = <<>>

InitValidate ==
    /\ Idle
    /\ data_url = <<>>
    /\ file_upload \in Uploads
    /\ structured_uploads = None
    /\ query_text = <<>>
    /\ layout = <<>>

InitParse ==
    /\ Idle
    /\ data_url = <<>>
    /\ file_upload = NotADict
    /\ structured_uploads = None
    /\ layout \in SeqsUpTo(ParsePieces, MaxPieces)
    /\ query_text = Flatten(layout)

InitNormalize ==
    /\ Idle
    /\ data_url = <<>>
    /\ file_upload = NotADict
    /\ structured_uploads \in StructuredInputs
    /\ layout \in SeqsUpTo(NormalizePieces, MaxPieces)
    /\ query_text = Flatten(layout)

ExtractCall ==
    /\ pc = "call"
    /\ LET r == extract_base64_from_data_url(data_url)
       IN  result' = Result(r.exc, r.val, <<>>, FALSE)
    /\ pc' = "done"
    /\ UNCHANGED <<data_url, file_upload, structured_uploads, query_text, layout, result2>>

ValidateCall ==
    /\ pc = "call"
    /\ result' = Result("none", <<>>, <<>>, validate_file_upload(file_upload))
    /\ pc' = "done"
    /\ UNCHANGED <<data_url, file_upload, structured_uploads, query_text, layout, result2>>

ParseCall ==
    /\ pc = "call"
    /\ result' = parse_file_upload_markers(query_text)
    /\ pc' = "done"
    /\ UNCHANGED <<data_url, file_upload, structured_uploads, query_text, layout, result2>>

NormalizeCall ==
    /\ pc = "call"
    /\ result' = normalize_file_uploads(structured_uploads, query_text)
    /\ pc' = "done"
    /\ UNCHANGED <<data_url, file_upload, structured_uploads, query_text, layout, result2>>

\* the caller passes what a call returned to a second call
NormalizeAgain ==
    /\ pc = "done"
    /\ result.exc = "none"
    /\ result2' = normalize_file_uploads(List(result.files), result.text)
    /\ pc' = "again"
    /\ UNCHANGED <<data_url, file_upload, structured_uploads, query_text, layout, result>>

SpecCodec == InitCodec /\ [][ExtractCall]_vars
SpecValidate == InitValidate /\ [][ValidateCall]_vars
SpecParse == InitParse /\ [][ParseCall]_vars
NextNormalize == NormalizeCall \/ NormalizeAgain
SpecNormalize == InitNormalize /\ [][NextNormalize]_vars

-----------------------------------------------------------------------------
(* What the claims speak of *)

Base64Comma == <<"base64", ",">>

\* a match the loop skips: its payload is empty or above the ceiling
Skipped(m) ==
    LET b == extract_base64_from_data_url(m.g1)
    IN  b.exc # "none" \/ b.val = <<>> \/ StrLen(b.val) > MAX_FILE_SIZE_BASE64

KeptMatches(text) == SelectSeq(re_findall(text), LAMBDA m : ~Skipped(m))
SkippedMatches(text) == SelectSeq(re_findall(text), Skipped)

UploadOfMatch(m) == FileUpload(extract_base64_from_data_url(m.g1).val, m.g2, m.g3)

\* text with each kept match, where it stands, replaced by the placeholder that
\* carries its file name as captured, and nothing else changed
RECURSIVE ExpectedCleanFrom(_, _, _, _)
ExpectedCleanFrom(text, matches, k, pos) ==
    IF k > Len(matches) THEN From(text, pos)
    ELSE LET m == matches[k]
         IN  SubSeq(text, pos, m.start - 1)
             \o (IF Skipped(m) THEN SubSeq(text, m.start, m.end) ELSE Placeholder(m.g2))
             \o ExpectedCleanFrom(text, matches, k + 1, m.end + 1)

ExpectedClean(text) == ExpectedCleanFrom(text, re_findall(text), 1, 1)

\* an upload with the three fields, a payload that is not empty and not above
\* the ceiling
Complete(u) ==
    /\ u.type = "dict"
    /\ required_fields \subseteq DOMAIN u.items
    /\ u.items.base64_data # <<>>
    /\ StrLen(u.items.base64_data) <= MAX_FILE_SIZE_BASE64

\* a payload part without bracket, backslash or newline; a name without colon too
PlainData(s) == \A i \in 1..Len(s) : s[i] \in {"n", "1", "base64", ",", ":"}
PlainName(s) == s # <<>> /\ \A i \in 1..Len(s) : s[i] \in {"n", "1"}

\* the layout is two markers with plain parts and valid payloads, with at most
\* plain text or newlines around and between them
MarkersOf(l) == SelectSeq(l, LAMBDA p : p.kind = "marker")

TwoValidMarkers(l) ==
    /\ Len(MarkersOf(l)) = 2
    /\ \A i \in 1..Len(l) :
          IF l[i].kind = "text" THEN l[i].d \in {<<NL>>, <<"n">>}
          ELSE /\ PlainData(l[i].d) /\ PlainName(l[i].f) /\ PlainName(l[i].m)
               /\ LET b == extract_base64_from_data_url(l[i].d)
                  IN  b.exc = "none" /\ b.val # <<>> /\ StrLen(b.val) <= MAX_FILE_SIZE_BASE64

UploadOfMarker(p) == FileUpload(extract_base64_from_data_url(p.d).val, p.f, p.m)

-----------------------------------------------------------------------------
(* The claims *)

\* C1: with a non-empty structured list, normalize_file_uploads returns the
\* text it was given, unchanged, and exactly the entries of the list that
\* validate_file_upload accepts, in the list's order; also when it accepts none.
C1_StructuredBranch ==
    (pc # "call" /\ ~structured_uploads.none /\ Len(structured_uploads.list) > 0) =>
        /\ result.exc = "none"
        /\ result.text = query_text
        /\ result.files = SelectSeq(structured_uploads.list, validate_file_upload)

\* C1 witness: every entry of a non-empty list is invalid, the text holds a
\* marker that extraction would keep, and the call returned the text and no upload
C1_Witness ==
    /\ pc = "done"
    /\ Len(structured_uploads.list) > 0
    /\ \A i \in 1..Len(structured_uploads.list) :
          ~validate_file_upload(structured_uploads.list[i])
    /\ KeptMatches(query_text) # <<>>
    /\ result.files = <<>>

\* C2: every upload normalize_file_uploads returns, in either branch, has the
\* three fields, a non-empty payload and a payload no longer than the ceiling.
C2_OutputInvariant ==
    /\ \A i \in 1..Len(result.files) : Complete(result.files[i])
    /\ \A i \in 1..Len(result2.files) : Complete(result2.files[i])

\* C2 witness: a structured list with an entry above the ceiling and an entry
\* that is kept
C2_Witness ==
    /\ pc = "done"
    /\ \E i \in 1..Len(structured_uploads.list) :
          LET u == structured_uploads.list[i]
          IN  /\ "base64_data" \in DOMAIN u.items
              /\ StrLen(u.items.base64_data) > MAX_FILE_SIZE_BASE64
    /\ result.files # <<>>

\* C3: validate_file_upload is true exactly for a dict with the three fields
\* whose payload is non-empty and no longer than the ceiling; no value of the
\* MIME type changes the answer.
C3_ValidateIff ==
    pc = "done" =>
        /\ result.ok <=> Complete(file_upload)
        /\ (file_upload.type = "dict" /\ "mime_type" \in DOMAIN file_upload.items) =>
              \A m \in MimeTypes :
                  validate_file_upload(
                      [file_upload EXCEPT !.items = [@ EXCEPT !.mime_type = m]])
                  = result.ok

\* C3 witness: an upload with a MIME type off the allow-list was accepted
C3_Witness ==
    /\ pc = "done"
    /\ result.ok
    /\ file_upload.items.mime_type = <<"application/x-unknown">>

\* C4: for a string that contains "base64,", extract_base64_from_data_url
\* returns all that follows the first "base64,", later ones included.
C4_AfterFirstBase64 ==
    (pc = "done" /\ Contains(data_url, Base64Comma)) =>
        /\ result.exc = "none"
        /\ result.text = From(data_url, Min(Occurrences(data_url, Base64Comma)) + 2)

\* C5 as stated: for any string without "base64," and without a comma,
\* extract_base64_from_data_url returns the string unchanged.
C5_AnyString ==
    (pc = "done" /\ ~Contains(data_url, Base64Comma) /\ ~Contains(data_url, <<",">>)) =>
        /\ result.exc = "none"
        /\ result.text = data_url

\* C5 amended: for any non-empty string without "base64," and without a comma,
\* extract_base64_from_data_url returns the string unchanged.
C5_NonEmptyString ==
    (/\ pc = "done"
     /\ data_url # <<>>
     /\ ~Contains(data_url, Base64Comma)
     /\ ~Contains(data_url, <<",">>)) =>
        /\ result.exc = "none"
        /\ result.text = data_url

\* C5 witness: a bare string of several units, the word base64 among them
C5_Witness ==
    /\ pc = "done"
    /\ Len(data_url) > 1
    /\ Contains(data_url, <<"base64">>)
    /\ ~Contains(data_url, <<",">>)
    /\ result.text = data_url

\* C6: a text with two well-formed markers with valid payloads, on one line or
\* on two, gives two uploads, in the order of the markers, each with its own
\* marker's payload, file name and MIME type.
C6_TwoMarkersInOrder ==
    (pc = "done" /\ TwoValidMarkers(layout)) =>
        /\ result.exc = "none"
        /\ result.files = << UploadOfMarker(MarkersOf(layout)[1]),
                             UploadOfMarker(MarkersOf(layout)[2]) >>

\* C7: parse_file_upload_markers returns for every text; it never raises.
C7_NeverRaises == pc = "done" => result.exc = "none"

\* C8: when parse_file_upload_markers returns, the uploads are those of the
\* matches that are not skipped, in order, and the literal text of every
\* skipped match is still in the cleaned text.
C8_SkippedLeftInText ==
    (pc = "done" /\ result.exc = "none") =>
        /\ Len(result.files) = Len(KeptMatches(query_text))
        /\ \A i \in 1..Len(result.files) :
              result.files[i] = UploadOfMatch(KeptMatches(query_text)[i])
        /\ \A i \in 1..Len(SkippedMatches(query_text)) :
              LET m == SkippedMatches(query_text)[i]
              IN  Contains(result.text, MarkerLiteral(m.g1, m.g2, m.g3))

\* C9: when parse_file_upload_markers returns, the cleaned text is the input
\* with every kept marker replaced by "[Uploaded file: <fileName>]", the file
\* name as captured, and every other character unchanged.
C9_CleanedText ==
    (pc = "done" /\ result.exc = "none") => result.text = ExpectedClean(query_text)

\* C10 as stated: normalizing what normalize_file_uploads returned gives the
\* same text and the same uploads again, for every structured input and text.
C10_Stable == pc = "again" => result2 = result

\* C10 amended: normalizing what normalize_file_uploads returned gives the same
\* text and uploads again when the structured input is absent, empty or holds
\* a valid entry; when it is non-empty and holds no valid entry, the second
\* call does what marker extraction does on the text.
C10_StableUnlessAllInvalid ==
    pc = "again" =>
        IF Truthy(structured_uploads) /\ result.files = <<>>
        THEN result2 = parse_file_upload_markers(query_text)
        ELSE result2 = result

\* C10 witness: uploads extracted from markers, one marker skipped and left in
\* the cleaned text, were passed back with the cleaned text
C10_Witness ==
    /\ pc = "again"
    /\ ~Truthy(structured_uploads)
    /\ result.files # <<>>
    /\ result.text # query_text
    /\ SkippedMatches(query_text) # <<>>
    /\ result2 = result

====
